---- MODULE Spec2Model ----
(***************************************************************************)
(* Model of examples/colored_by_group.py: the two color functions          *)
(* SimpleGroupedColorFunc and GroupedColorFunc, constructed from a         *)
(* color -> words dictionary and a default color, and then called once per *)
(* word by the word cloud's recolor step.                                  *)
(***************************************************************************)
EXTENDS Naturals, Sequences, FiniteSets

(* ------------------------------ bounds -------------------------------- *)

\* most entries of the color_to_words dictionary
MaxGroups == 2

\* most words in all lists of the dictionary together
MaxWords == 3

\* most callers that are inside GroupedColorFunc.__call__ at the same time
NumCallers == 2

\* words that are listed in the dictionary and asked for
Words == {"easy", "hard"}

\* color identifiers used as dictionary keys; "bogus" is no color
Colors == {"green", "red", "bogus"}

\* color identifiers used as the default color
DefaultColors == {"green", "bogus"}

\* keyword metadata a call passes along (font size, position, ...)
Kwargs == {"font_size=10", "font_size=20"}

\* outcomes of the random shade choice inside a single color function
Shades == {"dark", "light"}

Callers == 1..NumCallers

(* --------------------------- helper operators ------------------------- *)

Range(s) == {s[i] : i \in DOMAIN s}

SeqsUpTo(S, n) == UNION {[1..k -> S] : k \in 0..n}

RECURSIVE TotalWords(_)
TotalWords(items) ==
  IF items = <<>> THEN 0
  ELSE Len(items[1].words) + TotalWords(Tail(items))

\* the dictionaries: items in iteration order, keys distinct
Dicts ==
  {d \in SeqsUpTo([color : Colors, words : SeqsUpTo(Words, MaxWords)], MaxGroups) :
     /\ \A i, j \in DOMAIN d : d[i].color = d[j].color => i = j
     /\ TotalWords(d) <= MaxWords}

EmptyDict == [w \in {} |-> "none"]

NoFunc == [id |-> 0, color |-> "none"]

NoOut == [func |-> NoFunc, word |-> "none", kwargs |-> "none", result |-> "none"]

Idle == [pc |-> "idle", word |-> "none", kwargs |-> "none", func |-> NoFunc]

\* the color parser of the rendering surface: which identifiers are colors
ValidColor(color) == color \in {"green", "red"}

\* wordcloud.get_single_color_func: the n-th function object the factory
\* makes, bound to its base color
get_single_color_func(color, n) == [id |-> n, color |-> color]

\* a single color function called with a word and metadata: one shade of
\* its base color, picked by the random state rnd
single_color_func(func, word, kwargs, rnd) == <<func.color, rnd>>

(* ------------------------ SimpleGroupedColorFunc ---------------------- *)

\* variant of the comprehension in which the color is bound late: every word
\* gets the color of the last item
BuildWordToColorLateBound(items) ==
  LET all == UNION {Range(items[i].words) : i \in DOMAIN items}
  IN [w \in all |-> items[Len(items)].color]

\* the dict comprehension of __init__: a later item overwrites an earlier one
RECURSIVE BuildWordToColor(_)
BuildWordToColor(items) ==
  IF items = <<>> THEN EmptyDict
  ELSE LET n == Len(items)
           prev == BuildWordToColor(SubSeq(items, 1, n - 1))
           ws == Range(items[n].words)
       IN [w \in (DOMAIN prev) \cup ws |->
             IF w \in ws THEN items[n].color ELSE prev[w]]

\* variant of __call__ that reads the metadata: a word drawn at the larger
\* font size gets the default color
SimpleResolveBySize(w2c, dflt, word, kwargs) ==
  IF word \in DOMAIN w2c /\ kwargs # "font_size=20" THEN w2c[word] ELSE dflt

\* __call__: self.word_to_color.get(word, self.default_color)
SimpleResolve(w2c, dflt, word, kwargs) ==
  IF word \in DOMAIN w2c THEN w2c[word] ELSE dflt

(* --------------------------- GroupedColorFunc ------------------------- *)

\* index of the first item whose color the factory rejects, 0 if none
FirstInvalid(items) ==
  LET bad == {i \in DOMAIN items : ~ValidColor(items[i].color)}
  IN IF bad = {} THEN 0 ELSE CHOOSE i \in bad : \A j \in bad : i <= j

\* variant of __init__ that makes the function of a color only when the
\* color has words: a key with an empty list is never handed to the factory
GroupedCtorSkipEmpty(items, dflt) ==
  LET used == {i \in DOMAIN items : items[i].words # <<>>}
      bad == {i \in used : ~ValidColor(items[i].color)}
      n == Len(items)
  IN IF bad # {} \/ ~ValidColor(dflt)
       THEN [ok |-> FALSE, funcs |-> <<>>, dfunc |-> NoFunc, calls |-> Cardinality(used) + 1]
     ELSE [ok |-> TRUE,
           funcs |-> [i \in 1..n |->
                        [func |-> get_single_color_func(items[i].color, i),
                         words |-> Range(items[i].words)]],
           dfunc |-> get_single_color_func(dflt, n + 1),
           calls |-> Cardinality(used) + 1]

\* __init__: one factory call per item, in order, then one for the default;
\* the first rejected color ends the construction with the factory's error
GroupedCtor(items, dflt) ==
  LET bad == FirstInvalid(items)
      n == Len(items)
  IN IF bad # 0
       THEN [ok |-> FALSE, funcs |-> <<>>, dfunc |-> NoFunc, calls |-> bad]
     ELSE IF ~ValidColor(dflt)
       THEN [ok |-> FALSE, funcs |-> <<>>, dfunc |-> NoFunc, calls |-> n + 1]
     ELSE [ok |-> TRUE,
           funcs |-> [i \in 1..n |->
                        [func |-> get_single_color_func(items[i].color, i),
                         words |-> Range(items[i].words)]],
           dfunc |-> get_single_color_func(dflt, n + 1),
           calls |-> n + 1]

\* variant of get_color_func whose fallback is the function left over from
\* the scan (the last entry's) whenever there is one
get_color_func_leftover(cftw, dfunc, word) ==
  LET hit == {i \in DOMAIN cftw : word \in cftw[i].words}
  IN IF hit = {} THEN (IF cftw = <<>> THEN dfunc ELSE cftw[Len(cftw)].func)
     ELSE cftw[CHOOSE i \in hit : \A j \in hit : i <= j].func

\* variant of get_color_func that treats a word found in several entries as
\* found in none
get_color_func_unique(cftw, dfunc, word) ==
  LET hit == {i \in DOMAIN cftw : word \in cftw[i].words}
  IN IF Cardinality(hit) # 1 THEN dfunc
     ELSE cftw[CHOOSE i \in hit : TRUE].func

\* variant of get_color_func that asks the factory for a new function on
\* every call instead of handing out the stored one
get_color_func_fresh(cftw, dfunc, word) ==
  LET hit == {i \in DOMAIN cftw : word \in cftw[i].words}
      f == IF hit = {} THEN dfunc
           ELSE cftw[CHOOSE i \in hit : \A j \in hit : i <= j].func
  IN get_single_color_func(f.color, Len(cftw) + 2)

\* get_color_func: the function of the first entry whose set has the word,
\* the default function on StopIteration
get_color_func(cftw, dfunc, word) ==
  LET hit == {i \in DOMAIN cftw : word \in cftw[i].words}
  IN IF hit = {} THEN dfunc
     ELSE cftw[CHOOSE i \in hit : \A j \in hit : i <= j].func

(* -------------------------------- state ------------------------------- *)

VARIABLES
  variant,             \* which class the script instantiates
  color_to_words,      \* the dictionary passed to __init__
  default_color,       \* the default color passed to __init__
  state,               \* "new", "ready", or "error" when __init__ raised
  word_to_color,       \* SimpleGroupedColorFunc.word_to_color
  self_default_color,  \* SimpleGroupedColorFunc.default_color
  color_func_to_words, \* GroupedColorFunc.color_func_to_words
  default_color_func,  \* GroupedColorFunc.default_color_func
  factory_calls,       \* calls of get_single_color_func so far
  returned,            \* per word, the (kwargs, value) pairs the simple call gave
  raised,              \* the rendering surface rejected a returned value
  callers,             \* where each caller of GroupedColorFunc.__call__ is
  selected,            \* per word, the functions get_color_func gave
  out                  \* the last call of a single color function

vars == <<variant, color_to_words, default_color, state, word_to_color,
          self_default_color, color_func_to_words, default_color_func,
          factory_calls, returned, raised, callers, selected, out>>

input == <<variant, color_to_words, default_color>>

simple_fields == <<word_to_color, self_default_color>>

grouped_fields == <<color_func_to_words, default_color_func>>

Init ==
  /\ variant \in {"simple", "grouped"}
  /\ color_to_words \in Dicts
  /\ default_color \in DefaultColors
  /\ state = "new"
  /\ word_to_color = EmptyDict
  /\ self_default_color = "none"
  /\ color_func_to_words = <<>>
  /\ default_color_func = NoFunc
  /\ factory_calls = 0
  /\ returned = [w \in Words |-> {}]
  /\ raised = FALSE
  /\ callers = [c \in Callers |-> Idle]
  /\ selected = [w \in Words |-> {}]
  /\ out = NoOut

(* ------------------------------- actions ------------------------------ *)

\* variant of the simple constructor that parses every color it is given
\* and raises on the first one that is no color
SimpleInitEager ==
  /\ variant = "simple"
  /\ state = "new"
  /\ IF FirstInvalid(color_to_words) # 0 \/ ~ValidColor(default_color)
       THEN state' = "error" /\ UNCHANGED simple_fields
       ELSE /\ word_to_color' = BuildWordToColor(color_to_words)
            /\ self_default_color' = default_color
            /\ state' = "ready"
  /\ UNCHANGED <<input, grouped_fields, factory_calls, returned, raised,
                 callers, selected, out>>

\* SimpleGroupedColorFunc(color_to_words, default_color)
SimpleInit ==
  /\ variant = "simple"
  /\ state = "new"
  /\ word_to_color' = BuildWordToColor(color_to_words)
  /\ self_default_color' = default_color
  /\ state' = "ready"
  /\ UNCHANGED <<input, grouped_fields, factory_calls, returned, raised,
                 callers, selected, out>>

\* variant of the simple call written with setdefault: a word that is not
\* in the index is stored in it with the default color
SimpleCallSetDefault(word, kwargs) ==
  /\ variant = "simple"
  /\ state = "ready"
  /\ LET ret == SimpleResolve(word_to_color, self_default_color, word, kwargs)
     IN /\ returned' = [returned EXCEPT ![word] = @ \cup {<<kwargs, ret>>}]
        /\ raised' = (raised \/ ~ValidColor(ret))
        /\ word_to_color' = [w \in (DOMAIN word_to_color) \cup {word} |->
                               IF w \in DOMAIN word_to_color THEN word_to_color[w] ELSE ret]
  /\ UNCHANGED <<input, state, self_default_color, grouped_fields, factory_calls,
                 callers, selected, out>>

\* the recolor step calls the simple color function for a word and the
\* rendering surface applies the value it returns
SimpleCall(word, kwargs) ==
  /\ variant = "simple"
  /\ state = "ready"
  /\ LET ret == SimpleResolve(word_to_color, self_default_color, word, kwargs)
     IN /\ returned' = [returned EXCEPT ![word] = @ \cup {<<kwargs, ret>>}]
        /\ raised' = (raised \/ ~ValidColor(ret))
  /\ UNCHANGED <<input, state, simple_fields, grouped_fields, factory_calls,
                 callers, selected, out>>

\* GroupedColorFunc(color_to_words, default_color)
GroupedInit ==
  /\ variant = "grouped"
  /\ state = "new"
  /\ LET r == GroupedCtor(color_to_words, default_color)
     IN /\ state' = IF r.ok THEN "ready" ELSE "error"
        /\ color_func_to_words' = r.funcs
        /\ default_color_func' = r.dfunc
        /\ factory_calls' = factory_calls + r.calls
  /\ UNCHANGED <<input, simple_fields, returned, raised, callers, selected, out>>

\* __call__, first half: color_func = self.get_color_func(word)
GroupedCallBegin(c, word, kwargs) ==
  /\ variant = "grouped"
  /\ state = "ready"
  /\ callers[c].pc = "idle"
  /\ LET f == get_color_func(color_func_to_words, default_color_func, word)
     IN /\ callers' = [callers EXCEPT ![c] =
                         [pc |-> "picked", word |-> word, kwargs |-> kwargs, func |-> f]]
        /\ selected' = [selected EXCEPT ![word] = @ \cup {f}]
  /\ UNCHANGED <<input, state, simple_fields, grouped_fields, factory_calls,
                 returned, raised, out>>

\* __call__, second half: return color_func(word, **kwargs)
GroupedCallInvoke(c) ==
  /\ callers[c].pc = "picked"
  /\ \E rnd \in Shades :
       out' = [func |-> callers[c].func,
               word |-> callers[c].word,
               kwargs |-> callers[c].kwargs,
               result |-> single_color_func(callers[c].func, callers[c].word,
                                            callers[c].kwargs, rnd)]
  /\ callers' = [callers EXCEPT ![c] = Idle]
  /\ UNCHANGED <<input, state, simple_fields, grouped_fields, factory_calls,
                 returned, raised, selected>>

Next ==
  \/ SimpleInit
  \/ \E word \in Words, kwargs \in Kwargs : SimpleCall(word, kwargs)
  \/ GroupedInit
  \/ \E c \in Callers, word \in Words, kwargs \in Kwargs : GroupedCallBegin(c, word, kwargs)
  \/ \E c \in Callers : GroupedCallInvoke(c)

Spec == Init /\ [][Next]_vars

(* ----------------------- notions used by the claims ------------------- *)

\* the items of the dictionary whose list has the word
Containing(w) == {i \in DOMAIN color_to_words : w \in Range(color_to_words[i].words)}

\* the values the simple call has returned for the word
SimpleValues(w) == {p[2] : p \in returned[w]}

\* the functions get_color_func has given for the word, to a caller that is
\* about to call it or through the call that was made last
GivenFuncs(w) ==
  selected[w]
    \cup {callers[c].func : c \in {c \in Callers : callers[c].pc = "picked" /\ callers[c].word = w}}
    \cup (IF out # NoOut /\ out.word = w THEN {out.func} ELSE {})

\* the stored functions of the items in I
FuncsOf(I) == {color_func_to_words[i].func : i \in I \cap DOMAIN color_func_to_words}

\* every function the constructor stored
Cached == FuncsOf(DOMAIN color_func_to_words) \cup {default_color_func}

SomeInvalid ==
  \/ \E i \in DOMAIN color_to_words : ~ValidColor(color_to_words[i].color)
  \/ ~ValidColor(default_color)

(* -------------------------------- claims ------------------------------ *)

\* C1: a word that is in exactly one group gets that group's color on every
\* call: the simple call returns the group's color identifier, and
\* get_color_func gives the function stored for that group, which is bound to
\* the group's color and is not the default function; the shade returned is a
\* shade of that color.
C1_OneGroup ==
  \A w \in Words :
    Cardinality(Containing(w)) = 1 =>
      LET i == CHOOSE i \in Containing(w) : TRUE
      IN /\ SimpleValues(w) \subseteq {color_to_words[i].color}
         /\ \A f \in GivenFuncs(w) :
              /\ f = color_func_to_words[i].func
              /\ f.color = color_to_words[i].color
              /\ f # default_color_func
         /\ (out # NoOut /\ out.word = w) => out.result[1] = color_to_words[i].color

C1_Witness ==
  /\ Len(color_to_words) = 2
  /\ \E w \in Words :
       /\ Cardinality(Containing(w)) = 1
       /\ \/ variant = "simple" /\ returned[w] # {}
          \/ variant = "grouped" /\ out # NoOut /\ out.word = w

\* C2: a word that is in no group gets the default on every call: the simple
\* call returns default_color, get_color_func gives the default function,
\* bound to default_color; and no call ever gives the function of a group
\* that does not contain the word.
C2_NoGroup ==
  /\ \A w \in Words :
       Containing(w) = {} =>
         /\ SimpleValues(w) \subseteq {default_color}
         /\ \A f \in GivenFuncs(w) :
              /\ f = default_color_func
              /\ f.color = default_color
              /\ f \notin FuncsOf(DOMAIN color_func_to_words)
         /\ (out # NoOut /\ out.word = w) => out.result[1] = default_color
  /\ \A w \in Words : \A f \in GivenFuncs(w) :
       \A i \in DOMAIN color_func_to_words :
         f = color_func_to_words[i].func => i \in Containing(w)

C2_Witness ==
  /\ color_to_words # <<>>
  /\ \A i \in DOMAIN color_to_words : color_to_words[i].words = <<>>
  /\ \E w \in Words :
       \/ variant = "simple" /\ returned[w] # {}
       \/ variant = "grouped" /\ out # NoOut /\ out.word = w

\* C3: a word that is in more than one group gets, in both variants, the
\* color of one group that contains it (the grouped variant never gives it
\* the default function), and the same one on every call.
C3_SeveralGroups ==
  \A w \in Words :
    Cardinality(Containing(w)) > 1 =>
      /\ SimpleValues(w) \subseteq {color_to_words[i].color : i \in Containing(w)}
      /\ Cardinality(SimpleValues(w)) <= 1
      /\ GivenFuncs(w) \subseteq FuncsOf(Containing(w))
      /\ default_color_func \notin GivenFuncs(w)
      /\ Cardinality(GivenFuncs(w)) <= 1

C3_Witness ==
  \E w \in Words :
    /\ Cardinality(Containing(w)) > 1
    /\ \/ variant = "simple" /\ Cardinality(returned[w]) = 2
       \/ /\ variant = "grouped"
          /\ \A c \in Callers : callers[c].pc = "picked" /\ callers[c].word = w
          /\ out # NoOut /\ out.word = w

\* C4: built from the same dictionary and default color, the two variants
\* select the same base color for every word: what the simple call returns
\* is the base color of the function get_color_func gives, and conversely.
C4_SameBaseColor ==
  LET r == GroupedCtor(color_to_words, default_color)
      w2c == BuildWordToColor(color_to_words)
  IN r.ok =>
       \A w \in Words :
         /\ \A v \in SimpleValues(w) : v = get_color_func(r.funcs, r.dfunc, w).color
         /\ \A f \in GivenFuncs(w) :
              \A k \in Kwargs : f.color = SimpleResolve(w2c, default_color, w, k)

\* C5: a word that is in several groups resolves to the color of the
\* containing group that comes last in the dictionary's iteration order, in
\* the index of the simple variant and in what either variant's call selects.
C5_LastWriterWins ==
  \A w \in Words :
    Containing(w) # {} =>
      LET last == CHOOSE i \in Containing(w) : \A j \in Containing(w) : j <= i
      IN /\ (variant = "simple" /\ state = "ready") =>
              word_to_color[w] = color_to_words[last].color
         /\ SimpleValues(w) \subseteq {color_to_words[last].color}
         /\ \A f \in GivenFuncs(w) : f.color = color_to_words[last].color

\* C6: after construction no call changes the resolver: the index and the
\* default stay what the constructor made of the input, however the calls
\* interleave, and every call gives what a call on the freshly constructed
\* resolver gives for its word.
C6_ReadOnly ==
  /\ (variant = "simple" /\ state = "ready") =>
       /\ word_to_color = BuildWordToColor(color_to_words)
       /\ self_default_color = default_color
       /\ \A w \in Words : \A p \in returned[w] :
            p[2] = SimpleResolve(BuildWordToColor(color_to_words), default_color, w, p[1])
  /\ (variant = "grouped" /\ state = "ready") =>
       LET r == GroupedCtor(color_to_words, default_color)
       IN /\ color_func_to_words = r.funcs
          /\ default_color_func = r.dfunc
          /\ \A w \in Words : GivenFuncs(w) \subseteq {get_color_func(r.funcs, r.dfunc, w)}
  /\ state # "ready" =>
       /\ word_to_color = EmptyDict
       /\ color_func_to_words = <<>>

C6_Witness ==
  /\ variant = "grouped"
  /\ \E c, d \in Callers :
       /\ callers[c].pc = "picked"
       /\ callers[d].pc = "picked"
       /\ callers[c].word # callers[d].word
  /\ out # NoOut

\* C7: in the grouped variant an identifier that is no color, as a key (even
\* one with an empty list) or as the default, makes the constructor raise:
\* no resolver exists, nothing is ever resolved, and every function a call
\* gives is bound to a color.
C7_EagerValidation ==
  variant = "grouped" =>
    /\ SomeInvalid =>
         /\ state \in {"new", "error"}
         /\ color_func_to_words = <<>>
         /\ default_color_func = NoFunc
         /\ \A c \in Callers : callers[c] = Idle
         /\ \A w \in Words : selected[w] = {}
         /\ out = NoOut
    /\ state = "error" => SomeInvalid
    /\ \A w \in Words : \A f \in GivenFuncs(w) : ValidColor(f.color)

C7_Witness ==
  /\ variant = "grouped"
  /\ state = "error"
  /\ ValidColor(default_color)
  /\ \A i \in DOMAIN color_to_words :
       ~ValidColor(color_to_words[i].color) => color_to_words[i].words = <<>>

\* C8: in the simple variant the constructor never raises, whatever the
\* identifiers are; an identifier that is no color is stored and returned as
\* it is, and the rendering surface's error comes exactly with the first call
\* for a word that resolves to it, not before.
C8_LazyValidation ==
  variant = "simple" =>
    /\ state # "error"
    /\ state = "new" => ~raised
    /\ raised <=> \E w \in Words : \E v \in SimpleValues(w) : ~ValidColor(v)
    /\ \A w \in Words :
         (returned[w] # {} /\ ~ValidColor(SimpleResolve(word_to_color, self_default_color, w, "none")))
           => raised

C8_Witness ==
  /\ variant = "simple"
  /\ state = "ready"
  /\ raised
  /\ \E w \in Words : returned[w] # {} /\ \A v \in SimpleValues(w) : ValidColor(v)

\* C9: the simple call is deterministic and ignores the metadata: for a
\* word, every call has returned the same identifier, whatever keyword
\* metadata it was given and whatever was called in between.
C9_IgnoresKwargs ==
  variant = "simple" =>
    \A w \in Words : \A p, q \in returned[w] : p[2] = q[2]

C9_Witness ==
  /\ variant = "simple"
  /\ \A w \in Words : Cardinality(returned[w]) = Cardinality(Kwargs)
  /\ \E v, w \in Words : SimpleValues(v) # SimpleValues(w)

\* C10: the grouped constructor calls the factory once per key and once for
\* the default, and the functions it stores are all different; no call of
\* the resolver calls the factory again; every call gives one of the stored
\* functions, the same one for the same word, and the single color function
\* that is called is that function, called with the caller's word, and its
\* result is a shade of the function's base color.
C10_CachedFuncs ==
  (variant = "grouped" /\ state = "ready") =>
    /\ factory_calls = Len(color_to_words) + 1
    /\ Len(color_func_to_words) = Len(color_to_words)
    /\ Cardinality(Cached) = Len(color_to_words) + 1
    /\ \A w \in Words :
         /\ GivenFuncs(w) \subseteq Cached
         /\ Cardinality(GivenFuncs(w)) <= 1
    /\ out # NoOut =>
         /\ out.func = get_color_func(color_func_to_words, default_color_func, out.word)
         /\ out.kwargs \in Kwargs
         /\ out.result[1] = out.func.color

C10_Witness ==
  /\ variant = "grouped"
  /\ Len(color_to_words) = 2
  /\ \A w \in Words : Cardinality(selected[w]) = 1
  /\ out # NoOut
  /\ \E c \in Callers : callers[c].pc = "picked" /\ callers[c].kwargs # out.kwargs

====
